---------------------------- MODULE Spec2Model ----------------------------
(***************************************************************************)
(* Feza release pipeline (src/feza/main.py): plan -> build -> github ->    *)
(* tap over the persisted release manifest.                                *)
(*                                                                         *)
(* Strings are sequences of symbols (characters, or whole words where the  *)
(* code never looks inside them); the empty string is <<>>.                *)
(***************************************************************************)
EXTENDS Naturals, Sequences, FiniteSets, TLC

VARIABLES
    manifest,   \* dist/feza_manifest.json ([exists |-> FALSE, ...] when absent)
    dist,       \* archive files of the distribution directory: filename -> tar
    remote,     \* remote releases of the repository: tag -> set of asset names
    cmd,        \* the command of the running invocation, "none" between two
    pc,         \* position of the running invocation
    args,       \* validated arguments of the running invocation
    mem,        \* the invocation's in-memory manifest (dict read by read_manifest)
    todo,       \* remaining loop iterations (indices into mem.assets)
    existing,   \* cmd_github's existing_names of the current iteration
    calls,      \* external calls issued by the running invocation, in order
    branch,     \* cmd_tap's branch, once computed
    err,        \* the failure the invocation exited with, "" when none
    tmp,        \* temporary files and directories of the invocation on disk
    nwrites,    \* calls of write_manifest made by the running invocation
    pyproject   \* the version pyproject.toml declares in [project]

vars == <<manifest, dist, remote, cmd, pc, args, mem, todo, existing, calls,
          branch, err, tmp, nwrites, pyproject>>

----------------------------------------------------------------------------
\* Bounds of the model.

\* Longest --targets list given to plan.
MaxTargets == 2

\* Longest string given to validate_tag on its own.
MaxTagLen == 7

\* Longest target given to target_to_filename on its own.
MaxTargetLen == 4

----------------------------------------------------------------------------
\* Strings the invocations are given.

Digits == {"0", "1", "2"}

V1 == <<"v", "1", ".", "0", ".", "0">>
V2 == <<"v", "2", ".", "0", ".", "0">>
BadTag == <<"1", ".", "0", ".", "0">>
TagInputs == {V1, V2, BadTag}
\* Tags plan is given: one release is planned, V2 is the tag of another one.
PlanTagInputs == {V1, BadTag}

LinuxAmd64 == <<"linux", "-", "amd64">>
MacosArm64 == <<"macos", "-", "arm64">>
MacosAmd64 == <<"macos", "-", "amd64">>
PaddedTarget == <<" ", "linux", "-", "amd64">>
BadTarget == <<"linux">>
TargetInputs == {LinuxAmd64, MacosArm64, PaddedTarget, BadTarget}

\* Versions: what pyproject.toml declares at first, and what bump is given.
DeclaredVersion == <<"1", ".", "0", ".", "0">>
NextVersion == <<"1", ".", "1", ".", "0">>
MajorVersion == <<"2", ".", "0", ".", "0">>
BadVersion == <<"1", ".", "1">>
VersionInputs == {DeclaredVersion, NextVersion, MajorVersion, BadVersion}

ToolName == <<"foo">>
RepoName == <<"org/foo">>
RepoInputs == {<<>>, RepoName}
TapName == <<"org/homebrew-foo">>
FormulaName == <<"foo">>
MainBranch == <<"main">>

\* Bytes of a prebuilt binary found in an artifacts directory.
BinaryData == {"bytes1", "bytes2"}
\* What build finds at <artifacts-dir>/<target>: no directory, a directory
\* without a file named <name>*, or the first matching binary.
ArtifactStates == {"nodir", "nobinary"} \cup BinaryData

----------------------------------------------------------------------------
\* Pure helpers.

DEFAULT_TARGETS == <<MacosArm64, MacosAmd64, LinuxAmd64>>

IsDigits(s) == Len(s) >= 1 /\ \A i \in 1..Len(s) : s[i] \in Digits

\* v\d+\.\d+\.\d+ matched against the whole of s.
FullMatchTag(s) ==
    /\ Len(s) >= 1
    /\ s[1] = "v"
    /\ \E i, j \in 2..Len(s) :
          /\ i < j
          /\ s[i] = "."
          /\ s[j] = "."
          /\ IsDigits(SubSeq(s, 2, i - 1))
          /\ IsDigits(SubSeq(s, i + 1, j - 1))
          /\ IsDigits(SubSeq(s, j + 1, Len(s)))

\* re.match(r"^v\d+\.\d+\.\d+$", tag): "$" matches at the end of the string
\* and also just before a newline that ends the string.
re_match_tag(s) ==
    \/ FullMatchTag(s)
    \/ /\ Len(s) >= 1
       /\ s[Len(s)] = "\n"
       /\ FullMatchTag(SubSeq(s, 1, Len(s) - 1))

lstrip_v_kept(s) == s

RECURSIVE lstrip_v(_)
lstrip_v(s) == IF Len(s) >= 1 /\ s[1] = "v" THEN lstrip_v(Tail(s)) ELSE s

validate_tag(tag) ==
    IF ~re_match_tag(tag)
    THEN [ok |-> FALSE, tag |-> tag, version |-> <<>>]
    ELSE [ok |-> TRUE, tag |-> tag, version |-> lstrip_v(tag)]

\* str.split(sep): the pieces of s between the occurrences of sep.
RECURSIVE split(_, _)
split(s, sep) ==
    IF \A i \in 1..Len(s) : s[i] # sep
    THEN <<s>>
    ELSE LET k == CHOOSE i \in 1..Len(s) :
                      s[i] = sep /\ \A j \in 1..(i - 1) : s[j] # sep
         IN  <<SubSeq(s, 1, k - 1)>> \o split(SubSeq(s, k + 1, Len(s)), sep)

RECURSIVE lstrip(_)
lstrip(s) == IF Len(s) >= 1 /\ s[1] = " " THEN lstrip(Tail(s)) ELSE s

RECURSIVE rstrip(_)
rstrip(s) ==
    IF Len(s) >= 1 /\ s[Len(s)] = " " THEN rstrip(SubSeq(s, 1, Len(s) - 1)) ELSE s

strip(s) == rstrip(lstrip(s))

target_to_filename_lenient(target, name) ==
    LET parts == split(target, "-")
    IN  IF Len(parts) < 2
        THEN [ok |-> FALSE, filename |-> <<>>]
        ELSE [ok |-> TRUE,
              filename |-> name \o <<"-">> \o parts[1] \o <<"-">> \o parts[2]
                               \o <<".tar.gz">>]

target_to_filename(target, name) ==
    LET parts == split(target, "-")
    IN  IF Len(parts) # 2
        THEN [ok |-> FALSE, filename |-> <<>>]
        ELSE LET os_part == parts[1]
                 arch_part == parts[2]
                 os_name == IF os_part = <<"macos">> THEN <<"darwin">> ELSE os_part
             IN  [ok |-> TRUE,
                  filename |-> name \o <<"-">> \o os_name \o <<"-">> \o arch_part
                                   \o <<".tar.gz">>]

\* tarfile.open(package_path, "w:gz"); tar.add(binary_path, arcname=name):
\* a single-entry archive.
tar_gz(name, data) == <<"tar.gz", name, data>>

\* hashlib.sha256(bytes).hexdigest(): never empty, and collision-free on the
\* archives of the model.
sha256(bytes) == <<"sha256">> \o <<bytes>>

download_url_untagged(repo, tag, filename) ==
    <<"https://github.com/">> \o repo \o <<"/releases/download/">> \o filename

download_url(repo, tag, filename) ==
    <<"https://github.com/">> \o repo \o <<"/releases/download/">> \o tag
        \o <<"/">> \o filename

get_repo(repoArg, envRepo) ==
    IF repoArg # <<>> THEN [ok |-> TRUE, repo |-> repoArg]
    ELSE IF envRepo # <<>> THEN [ok |-> TRUE, repo |-> envRepo]
    ELSE [ok |-> FALSE, repo |-> <<>>]

----------------------------------------------------------------------------
\* State shared by the invocations.

NoManifest ==
    [exists |-> FALSE, tag |-> <<>>, version |-> <<>>, name |-> <<>>,
     assets |-> <<>>]

NoArgs == [tag |-> <<>>]

Init ==
    /\ manifest = NoManifest
    /\ dist = <<>>
    /\ remote = <<>>
    /\ cmd = "none"
    /\ pc = "idle"
    /\ args = NoArgs
    /\ mem = NoManifest
    /\ todo = <<>>
    /\ existing = {}
    /\ calls = <<>>
    /\ branch = <<>>
    /\ err = ""
    /\ tmp = {}
    /\ nwrites = 0
    /\ pyproject = DeclaredVersion

\* sys.exit(message), or an exception that ends the process: the process's
\* memory is gone, the calls it issued and its exit status are what is left.
Failed(e) ==
    /\ pc' = "failed"
    /\ err' = e
    /\ mem' = NoManifest
    /\ todo' = <<>>
    /\ existing' = {}
    /\ branch' = <<>>

\* A precondition fails before the command has done anything.
Refused(e) ==
    /\ Failed(e)
    /\ args' = NoArgs
    /\ UNCHANGED <<manifest, dist, remote, calls, tmp, nwrites>>

\* The command returns.
Done ==
    /\ pc' = "done"
    /\ err' = ""
    /\ mem' = NoManifest
    /\ todo' = <<>>
    /\ existing' = {}
    /\ branch' = <<>>

\* The process has ended; the next invocation starts from the persisted state.
Exit ==
    /\ pc \in {"done", "failed"}
    /\ UNCHANGED pyproject
    /\ cmd' = "none"
    /\ pc' = "idle"
    /\ args' = NoArgs
    /\ calls' = <<>>
    /\ err' = ""
    /\ tmp' = {}
    /\ nwrites' = 0
    /\ UNCHANGED <<manifest, dist, remote, mem, todo, existing, branch>>

----------------------------------------------------------------------------
\* External calls (subprocess.run of git and gh) that reach the repository or
\* the remote host, as the invocation issued them.  name: the asset or branch
\* the call names; present: the release or asset was on the remote when the
\* call was issued; cred: the token is part of the URL the call uses.

Call(op, ok) ==
    [op |-> op, ok |-> ok, name |-> <<>>, draft |-> FALSE, present |-> FALSE,
     cred |-> FALSE]

read_manifest == manifest

tag_matches_any(m, tag) == TRUE

\* manifest["tag"] != tag ends build, github and tap.
tag_matches(m, tag) == m.tag = tag

\* json.dump of the whole document over dist/feza_manifest.json.
write_manifest(m) ==
    /\ manifest' = [m EXCEPT !.exists = TRUE]
    /\ nwrites' = nwrites + 1

----------------------------------------------------------------------------
\* plan

\* The --targets lists given to plan, already split at the commas.
TargetLists == UNION {[1..k -> TargetInputs] : k \in 1..MaxTargets}

plan_targets(targetsArg) ==
    IF targetsArg = <<>> THEN DEFAULT_TARGETS
    ELSE [i \in 1..Len(targetsArg) |-> strip(targetsArg[i])]

\* The targets without their repetitions.
RECURSIVE distinct_targets(_)
distinct_targets(targets) ==
    IF targets = <<>> THEN <<>>
    ELSE LET rest == distinct_targets(SubSeq(targets, 1, Len(targets) - 1))
             last == targets[Len(targets)]
         IN  IF \E i \in 1..Len(rest) : rest[i] = last THEN rest
             ELSE Append(rest, last)

plan_assets_merged(targets, name) ==
    LET ts == distinct_targets(targets)
    IN  [i \in 1..Len(ts) |->
            [target |-> ts[i],
             filename |-> target_to_filename(ts[i], name).filename,
             sha256 |-> <<>>,
             url |-> <<>>]]

plan_assets(targets, name) ==
    [i \in 1..Len(targets) |->
        [target |-> targets[i],
         filename |-> target_to_filename(targets[i], name).filename,
         sha256 |-> <<>>,
         url |-> <<>>]]

plan_manifest(v, name, targets) ==
    [exists |-> TRUE,
     tag |-> v.tag,
     version |-> v.version,
     name |-> name,
     assets |-> plan_assets(targets, name)]

plan_stop_truncating(e, status) ==
    /\ Failed(e)
    /\ args' = NoArgs
    /\ calls' = status
    /\ manifest' = NoManifest
    /\ UNCHANGED <<dist, remote, tmp, nwrites>>

\* sys.exit of ensure_clean_working_tree, ValueError of target_to_filename:
\* both before write_manifest.
plan_stop(e, status) ==
    /\ Failed(e)
    /\ args' = NoArgs
    /\ calls' = status
    /\ UNCHANGED <<manifest, dist, remote, tmp, nwrites>>

cmd_plan ==
    /\ pc = "idle"
    /\ UNCHANGED pyproject
    /\ cmd' = "plan"
    /\ \E tag \in PlanTagInputs, targetsArg \in TargetLists,
          tree \in {"clean", "dirty", "norepo"} :
          LET v == validate_tag(tag)
              targets == plan_targets(targetsArg)
              status == <<Call("git status", tree # "norepo")>>
              stop(e) == plan_stop(e, status)
          IN  IF ~v.ok THEN Refused("InvalidTagFormat")
              ELSE IF tree = "norepo" THEN stop("NotAGitRepository")
              ELSE IF tree = "dirty" THEN stop("DirtyWorkingTree")
              ELSE IF \E i \in 1..Len(targets) :
                         ~target_to_filename(targets[i], ToolName).ok
              THEN stop("InvalidTargetFormat")
              ELSE /\ write_manifest(plan_manifest(v, ToolName, targets))
                   /\ args' = [tag |-> tag, targets |-> targetsArg]
                   /\ calls' = status
                   /\ Done
                   /\ UNCHANGED <<dist, remote, tmp>>

----------------------------------------------------------------------------
\* build

assets_to_process_all(assets, target, i) == [k \in 1..Len(assets) |-> k]

\* Indices of manifest["assets"] the loop processes, in order.
RECURSIVE assets_to_process(_, _, _)
assets_to_process(assets, target, i) ==
    IF i > Len(assets) THEN <<>>
    ELSE (IF target = <<>> \/ assets[i].target = target THEN <<i>> ELSE <<>>)
             \o assets_to_process(assets, target, i + 1)

loop_manifest_eager(m, updated) == updated

\* The persisted manifest after an iteration that packaged an asset: the
\* loop updates the dict in memory, write_manifest comes after the loop.
loop_manifest(m, updated) == m

cmd_build_begin ==
    /\ pc = "idle"
    /\ UNCHANGED pyproject
    /\ cmd' = "build"
    /\ \E tag \in TagInputs, repoArg \in RepoInputs, envRepo \in RepoInputs,
          target \in {<<>>, LinuxAmd64, MacosArm64}, script \in {"ok", "failed"} :
          LET v == validate_tag(tag)
              m == read_manifest
              r == get_repo(repoArg, envRepo)
              ids == assets_to_process(m.assets, target, 1)
          IN  IF ~v.ok THEN Refused("InvalidTagFormat")
              ELSE IF ~m.exists THEN Refused("ManifestNotFound")
              ELSE IF ~tag_matches(m, tag) THEN Refused("TagMismatch")
              ELSE IF ~r.ok THEN Refused("MissingRepo")
              ELSE IF ids = <<>> THEN Refused("TargetNotFound")
              ELSE IF script = "failed" THEN Refused("ScriptFailed")
              ELSE /\ pc' = "build_loop"
                   /\ args' = [tag |-> tag, repo |-> r.repo, target |-> target]
                   /\ mem' = m
                   /\ todo' = ids
                   /\ UNCHANGED <<manifest, dist, remote, existing, calls,
                                  branch, err, tmp, nwrites>>

\* One iteration of "for asset in assets_to_process".
cmd_build_asset ==
    /\ pc = "build_loop"
    /\ UNCHANGED pyproject
    /\ todo # <<>>
    /\ \E found \in ArtifactStates :
          LET i == Head(todo)
              asset == mem.assets[i]
              package == tar_gz(mem.name, found)
          IN  IF found = "nodir"
              THEN /\ Failed("ArtifactsDirNotFound")
                   /\ UNCHANGED <<manifest, dist>>
              ELSE IF found = "nobinary"
              THEN /\ Failed("BinaryNotFound")
                   /\ UNCHANGED <<manifest, dist>>
              ELSE /\ dist' = (asset.filename :> package) @@ dist
                   /\ mem' = [mem EXCEPT
                                 !.assets[i].sha256 = sha256(package),
                                 !.assets[i].url =
                                     download_url(args.repo, args.tag, asset.filename)]
                   /\ todo' = Tail(todo)
                   /\ manifest' = loop_manifest(manifest, mem')
                   /\ UNCHANGED <<pc, err, existing, branch>>
    /\ UNCHANGED <<remote, cmd, args, calls, tmp, nwrites>>

cmd_build_write ==
    /\ pc = "build_loop"
    /\ UNCHANGED pyproject
    /\ todo = <<>>
    /\ write_manifest(mem)
    /\ Done
    /\ UNCHANGED <<dist, remote, cmd, args, calls, tmp>>

----------------------------------------------------------------------------
\* github

\* gh release view <tag>: non-zero when the release does not exist and when
\* the query itself fails.
release_view_rc(tag, answer) ==
    IF answer = "ok" /\ tag \in DOMAIN remote THEN 0 ELSE 1

already_uploaded_never(filename, names) == FALSE

already_uploaded_always(filename, names) == TRUE

\* asset["filename"] in existing_names
already_uploaded(filename, names) == filename \in names

has_unpackaged_first(assets) == Len(assets) >= 1 /\ assets[1].sha256 = <<>>

\* "for asset in manifest['assets']: if not asset.get('sha256')"
has_unpackaged(assets) == \E i \in 1..Len(assets) : assets[i].sha256 = <<>>

draft_flag_always(a) == TRUE

\* "if args.draft: cmd.append('--draft')"
draft_flag(a) == a.draft

cmd_github_begin ==
    /\ pc = "idle"
    /\ UNCHANGED pyproject
    /\ cmd' = "github"
    /\ \E tag \in TagInputs, repoArg \in RepoInputs, envRepo \in RepoInputs,
          draft \in BOOLEAN, notes \in BOOLEAN :
          LET v == validate_tag(tag)
              m == read_manifest
              r == get_repo(repoArg, envRepo)
          IN  IF ~v.ok THEN Refused("InvalidTagFormat")
              ELSE IF ~m.exists THEN Refused("ManifestNotFound")
              ELSE IF ~tag_matches(m, tag) THEN Refused("TagMismatch")
              ELSE IF has_unpackaged(m.assets) THEN Refused("AssetNotPackaged")
              ELSE IF ~r.ok THEN Refused("MissingRepo")
              ELSE /\ pc' = "gh_view"
                   /\ args' = [tag |-> tag, repo |-> r.repo, draft |-> draft,
                               notes |-> notes]
                   /\ mem' = m
                   /\ todo' = [i \in 1..Len(m.assets) |-> i]
                   /\ UNCHANGED <<manifest, dist, remote, existing, calls,
                                  branch, err, tmp, nwrites>>

\* gh release view <tag> --repo <repo>
cmd_github_view ==
    /\ pc = "gh_view"
    /\ UNCHANGED pyproject
    /\ \E answer \in {"ok", "error"} :
          LET rc == release_view_rc(args.tag, answer)
          IN  /\ calls' = Append(calls,
                     [Call("release view", answer = "ok") EXCEPT
                         !.present = args.tag \in DOMAIN remote])
              /\ pc' = IF rc # 0 THEN "gh_create" ELSE "gh_loop"
    /\ UNCHANGED <<manifest, dist, remote, cmd, args, mem, todo, existing,
                   branch, err, tmp, nwrites>>

\* The rendered notes go to a NamedTemporaryFile(delete=False); then
\* gh release create <tag> --repo <repo> --title <tag> [--draft], check=True.
cmd_github_create ==
    /\ pc = "gh_create"
    /\ UNCHANGED pyproject
    /\ tmp' = IF args.notes THEN tmp \cup {"notes"} ELSE tmp
    /\ \E answer \in {"ok", "error"} :
          LET created == answer = "ok" /\ args.tag \notin DOMAIN remote
          IN  /\ calls' = Append(calls,
                     [Call("release create", created) EXCEPT
                         !.draft = draft_flag(args),
                         !.present = args.tag \in DOMAIN remote])
              /\ IF created
                 THEN /\ remote' = (args.tag :> {}) @@ remote
                      /\ pc' = "gh_loop"
                      /\ UNCHANGED <<err, mem, todo, existing, branch>>
                 ELSE /\ Failed("ExternalToolError")
                      /\ UNCHANGED remote
    /\ UNCHANGED <<manifest, dist, cmd, args, nwrites>>

\* Head of one iteration of "for asset in manifest['assets']": the file check
\* and gh release view <tag> --json assets, check=True.
cmd_github_list ==
    /\ pc = "gh_loop"
    /\ UNCHANGED pyproject
    /\ todo # <<>>
    /\ LET asset == mem.assets[Head(todo)]
       IN  IF asset.filename \notin DOMAIN dist
           THEN /\ Failed("AssetFileNotFound")
                /\ UNCHANGED calls
           ELSE \E answer \in {"ok", "error"} :
                   LET listed == answer = "ok" /\ args.tag \in DOMAIN remote
                   IN  /\ calls' = Append(calls, Call("release assets", listed))
                       /\ IF listed
                          THEN /\ existing' = remote[args.tag]
                               /\ pc' = "gh_upload"
                               /\ UNCHANGED <<err, mem, todo, branch>>
                          ELSE Failed("ExternalToolError")
    /\ UNCHANGED <<manifest, dist, remote, cmd, args, tmp, nwrites>>

\* Rest of the iteration: skip, or gh release upload <tag> <file>, check=True.
\* gh refuses to upload over an asset of the same name.
cmd_github_upload ==
    /\ pc = "gh_upload"
    /\ UNCHANGED pyproject
    /\ LET asset == mem.assets[Head(todo)]
       IN  IF already_uploaded(asset.filename, existing)
           THEN /\ todo' = Tail(todo)
                /\ pc' = "gh_loop"
                /\ UNCHANGED <<calls, remote, err, mem, existing, branch>>
           ELSE \E answer \in {"ok", "error"} :
                   LET present == /\ args.tag \in DOMAIN remote
                                  /\ asset.filename \in remote[args.tag]
                       uploaded == answer = "ok" /\ args.tag \in DOMAIN remote
                                       /\ ~present
                   IN  /\ calls' = Append(calls,
                              [Call("release upload", uploaded) EXCEPT
                                  !.name = asset.filename,
                                  !.present = present])
                       /\ IF uploaded
                          THEN /\ remote' = [remote EXCEPT
                                      ![args.tag] = @ \cup {asset.filename}]
                               /\ todo' = Tail(todo)
                               /\ pc' = "gh_loop"
                               /\ UNCHANGED <<err, mem, existing, branch>>
                          ELSE /\ Failed("ExternalToolError")
                               /\ UNCHANGED remote
    /\ UNCHANGED <<manifest, dist, cmd, args, tmp, nwrites>>

github_manifest_dropped(m, read) == NoManifest

\* The manifest file when cmd_github returns: the dict it read is only read,
\* cmd_github has no write_manifest.
github_manifest(m, read) == m

cmd_github_end ==
    /\ pc = "gh_loop"
    /\ UNCHANGED pyproject
    /\ todo = <<>>
    /\ Done
    /\ manifest' = github_manifest(manifest, mem)
    /\ UNCHANGED <<dist, remote, cmd, args, calls, tmp, nwrites>>

----------------------------------------------------------------------------
\* tap

resolve_github_token_env_first(gh, env_github, env_tap, interactive, choice, gh_again, typed) ==
    LET found == IF env_github THEN "GITHUB_TOKEN"
                 ELSE IF env_tap THEN "TAP_PAT"
                 ELSE IF gh = "token" THEN "gh"
                 ELSE ""
        source == IF found # "" \/ ~interactive THEN found
                  ELSE IF choice = "1" /\ gh_again = "token" THEN "gh"
                  ELSE IF choice = "2" /\ typed = "token" THEN "manual"
                  ELSE ""
    IN  [ok |-> source # "",
         source |-> source,
         prompted |-> found = "" /\ interactive,
         err |-> IF source # "" THEN "" ELSE "NoToken"]

\* gh: what "gh auth token" gives ("token", "empty" output, or "error");
\* env_github, env_tap: GITHUB_TOKEN and TAP_PAT are set; choice, gh_again and
\* typed: the operator's answers and the second "gh auth token" of the prompt.
resolve_github_token(gh, env_github, env_tap, interactive, choice, gh_again, typed) ==
    LET found == IF gh = "token" THEN "gh"
                 ELSE IF env_github THEN "GITHUB_TOKEN"
                 ELSE IF env_tap THEN "TAP_PAT"
                 ELSE ""
        prompted == found = "" /\ interactive
        source == IF ~prompted THEN found
                  ELSE IF choice = "1"
                  THEN (IF gh_again = "token" THEN "gh" ELSE "")
                  ELSE IF choice = "2"
                  THEN (IF typed = "token" THEN "manual" ELSE "")
                  ELSE ""
    IN  [ok |-> source # "",
         source |-> source,
         prompted |-> prompted,
         err |-> IF source # "" THEN ""
                 ELSE IF prompted /\ choice \notin {"1", "2"} THEN "Aborted"
                 ELSE "NoToken"]

\* cmd_tap up to the call of ensure_tap_repo_exists.
cmd_tap_begin ==
    /\ pc = "idle"
    /\ UNCHANGED pyproject
    /\ cmd' = "tap"
    /\ \E tag \in TagInputs :
          LET v == validate_tag(tag)
              m == read_manifest
          IN  IF ~v.ok THEN Refused("InvalidTagFormat")
              ELSE IF ~m.exists THEN Refused("ManifestNotFound")
              ELSE IF ~tag_matches(m, tag) THEN Refused("TagMismatch")
              ELSE \E tapArg \in {<<>>, TapName}, main_repo \in RepoInputs,
                      formula \in {<<>>, FormulaName} :
                 IF tapArg = <<>> /\ main_repo = <<>> THEN Refused("TapRequired")
                 ELSE IF formula = <<>> THEN Refused("FormulaRequired")
                 ELSE \E auto \in BOOLEAN, non_interactive \in BOOLEAN,
                         ci_env \in BOOLEAN, create_flag \in BOOLEAN,
                         dry_run \in BOOLEAN,
                         gh \in {"token", "empty", "error"},
                         env_github \in BOOLEAN, env_tap \in BOOLEAN :
                    LET ci_mode == ci_env \/ non_interactive \/ auto
                        first == resolve_github_token(gh, env_github, env_tap,
                                     FALSE, "3", "error", "empty")
                        start == /\ pc' = "tap_repo"
                                 /\ args' = [tag |-> tag,
                                             ci_mode |-> ci_mode,
                                             create_tap |-> create_flag \/ auto,
                                             dry_run |-> dry_run]
                                 /\ mem' = m
                                 /\ UNCHANGED <<manifest, dist, remote, todo,
                                                existing, calls, branch, err,
                                                tmp, nwrites>>
                    IN  IF first.ok THEN start
                        ELSE IF ci_mode THEN Refused(first.err)
                        ELSE \E choice \in {"1", "2", "3"},
                                gh_again \in {"token", "empty", "error"},
                                typed \in {"token", "empty"} :
                           LET t == resolve_github_token(gh, env_github, env_tap,
                                        TRUE, choice, gh_again, typed)
                           IN  IF t.ok THEN start ELSE Refused(t.err)

may_create_always(create_if_missing, interactive) == TRUE

\* "if not create_if_missing and not interactive: return False"
may_create(create_if_missing, interactive) == create_if_missing \/ interactive

\* ensure_tap_repo_exists up to "gh repo create": gh repo view <tap>, the
\* operator's answer in an attended run, gh repo create <tap> --public.
cmd_tap_repo ==
    /\ pc = "tap_repo"
    /\ UNCHANGED pyproject
    /\ \E view \in {"exists", "missing"} :
          LET viewed == Append(calls, Call("repo view", view = "exists"))
              interactive == ~args.ci_mode
          IN  IF view = "exists"
              THEN /\ calls' = viewed
                   /\ pc' = "tap_clone"
                   /\ UNCHANGED <<err, mem, todo, existing, branch>>
              ELSE IF ~may_create(args.create_tap, interactive)
              THEN /\ calls' = viewed
                   /\ Failed("TapRepoMissing")
              ELSE \E choice \in {"y", "n"}, answer \in {"ok", "error"} :
                      IF interactive /\ choice # "y"
                      THEN /\ calls' = viewed
                           /\ Failed("TapRepoMissing")
                      ELSE /\ calls' = Append(viewed,
                                  Call("repo create", answer = "ok"))
                           /\ IF answer = "ok"
                              THEN /\ pc' = "tap_scaffold"
                                   /\ UNCHANGED <<err, mem, todo, existing, branch>>
                              ELSE Failed("TapCreateFailed")
    /\ UNCHANGED <<manifest, dist, remote, cmd, args, tmp, nwrites>>

\* Rest of ensure_tap_repo_exists: the scaffold in a TemporaryDirectory (git
\* init -b main, config, add, commit, remote add with the token in the URL),
\* then git push -u origin main; the directory is removed when the block is
\* left, also by an exception.
cmd_tap_scaffold ==
    /\ pc = "tap_scaffold"
    /\ UNCHANGED pyproject
    /\ \E outcome \in {"ok", "git", "push"} :
          IF outcome = "git"
          THEN /\ Failed("ExternalToolError")
               /\ UNCHANGED calls
          ELSE /\ calls' = Append(calls,
                      [Call("git push", outcome = "ok") EXCEPT
                          !.name = MainBranch, !.cred = TRUE])
               /\ IF outcome = "ok"
                  THEN /\ pc' = "tap_clone"
                       /\ UNCHANGED <<err, mem, todo, existing, branch>>
                  ELSE Failed("ExternalToolError")
    /\ UNCHANGED <<manifest, dist, remote, cmd, args, tmp, nwrites>>

\* branch = args.branch or f"feza/{tag}"
tap_branch(branchArg, tag) ==
    IF branchArg # <<>> THEN branchArg ELSE <<"feza/">> \o tag

\* git checkout -b <branch> in the clone: fails when refs/heads/<branch>
\* exists, that is when <branch> is the cloned branch and it has a commit.
checkout_new_branch(b, head, born) == ~(b = head /\ born)

\* render_formula, then inside the TemporaryDirectory: git clone --depth 1
\* with the token in the URL, git checkout -b <branch>, config, the formula
\* file, add, commit, gh auth setup-git, remote set-url without the token.
\* head: the branch HEAD of the clone names (the tap's default branch);
\* born: that branch has a commit (it has none in a repository nothing was
\* pushed to yet, which a scaffold push of this invocation excludes).
cmd_tap_clone ==
    /\ pc = "tap_clone"
    /\ UNCHANGED pyproject
    /\ \E outcome \in {"ok", "render", "clone", "git"},
          branchArg \in {<<>>, MainBranch},
          head \in {MainBranch, <<"master">>},
          born \in BOOLEAN :
          LET b == tap_branch(branchArg, args.tag)
              cloned == [Call("git clone", outcome # "clone") EXCEPT
                            !.name = head, !.present = born, !.cred = TRUE]
              scaffolded == \E i \in 1..Len(calls) :
                               calls[i].op = "git push" /\ calls[i].ok
          IN  IF scaffolded /\ ~(head = MainBranch /\ born)
              THEN FALSE
              ELSE IF outcome = "render"
              THEN /\ Failed("TemplateError")
                   /\ UNCHANGED <<calls, tmp>>
              ELSE /\ calls' = Append(calls, cloned)
                   /\ IF outcome = "ok" /\ checkout_new_branch(b, head, born)
                      THEN /\ pc' = "tap_push"
                           /\ branch' = b
                           /\ tmp' = tmp \cup {"tap"}
                           /\ UNCHANGED <<err, mem, todo, existing>>
                      ELSE /\ Failed("ExternalToolError")
                           /\ UNCHANGED tmp
    /\ UNCHANGED <<manifest, dist, remote, cmd, args, nwrites>>

remote_url_has_token_always(fallback) == TRUE

\* The URL of origin at a push of the formula branch: set without the token
\* before the first push, with x-access-token:<token> for the fallback.
remote_url_has_token(fallback) == fallback

\* The dry-run return, or git push origin <branch> with the ambient session.
cmd_tap_push ==
    /\ pc = "tap_push"
    /\ UNCHANGED pyproject
    /\ IF args.dry_run
       THEN /\ Done
            /\ tmp' = tmp \ {"tap"}
            /\ UNCHANGED calls
       ELSE \E answer \in {"ok", "error"} :
               /\ calls' = Append(calls,
                      [Call("git push", answer = "ok") EXCEPT
                          !.name = branch,
                          !.cred = remote_url_has_token(FALSE)])
               /\ pc' = IF answer = "ok" THEN "tap_pr" ELSE "tap_fallback"
               /\ UNCHANGED <<err, mem, todo, existing, branch, tmp>>
    /\ UNCHANGED <<manifest, dist, remote, cmd, args, nwrites>>

\* remote set-url with x-access-token:<token> in the URL, git push again.
cmd_tap_fallback ==
    /\ pc = "tap_fallback"
    /\ UNCHANGED pyproject
    /\ \E answer \in {"ok", "error"} :
          /\ calls' = Append(calls,
                 [Call("git push", answer = "ok") EXCEPT
                     !.name = branch, !.cred = remote_url_has_token(TRUE)])
          /\ IF answer = "ok"
             THEN /\ pc' = "tap_pr"
                  /\ UNCHANGED <<err, mem, todo, existing, branch, tmp>>
             ELSE /\ Failed("PushFailed")
                  /\ tmp' = tmp \ {"tap"}
    /\ UNCHANGED <<manifest, dist, remote, cmd, args, nwrites>>

\* gh pr create --base main --head <branch> when --open-pr was given,
\* check=True; then the TemporaryDirectory block is left.
cmd_tap_pr ==
    /\ pc = "tap_pr"
    /\ UNCHANGED pyproject
    /\ tmp' = tmp \ {"tap"}
    /\ \E open_pr \in BOOLEAN, answer \in {"ok", "error"} :
          IF ~open_pr
          THEN /\ Done
               /\ UNCHANGED calls
          ELSE /\ calls' = Append(calls,
                      [Call("pr create", answer = "ok") EXCEPT !.name = branch])
               /\ IF answer = "ok" THEN Done ELSE Failed("ExternalToolError")
    /\ UNCHANGED <<manifest, dist, remote, cmd, args, nwrites>>

----------------------------------------------------------------------------
\* The file system between two invocations: an archive of the distribution
\* directory is gone when the next invocation runs (another checkout or CI
\* job, a cleaned dist directory).
archive_removed ==
    /\ pc = "idle"
    /\ UNCHANGED pyproject
    /\ \E f \in DOMAIN dist :
          dist' = [g \in (DOMAIN dist) \ {f} |-> dist[g]]
    /\ UNCHANGED <<manifest, remote, cmd, pc, args, mem, todo, existing, calls,
                   branch, err, tmp, nwrites>>

Next ==
    \/ cmd_plan
    \/ cmd_build_begin
    \/ cmd_build_asset
    \/ cmd_build_write
    \/ cmd_github_begin
    \/ cmd_github_view
    \/ cmd_github_create
    \/ cmd_github_list
    \/ cmd_github_upload
    \/ cmd_github_end
    \/ archive_removed
    \/ Exit

\* plan, build and github from an empty working directory.
Spec == Init /\ [][Next]_vars

----------------------------------------------------------------------------
\* The phases after planning, on a manifest that plan has written.

PlannedManifest ==
    plan_manifest(validate_tag(V1), ToolName, plan_targets(<<LinuxAmd64>>))

InitTap ==
    /\ manifest = PlannedManifest
    /\ dist = <<>>
    /\ remote = <<>>
    /\ cmd = "none"
    /\ pc = "idle"
    /\ args = NoArgs
    /\ mem = NoManifest
    /\ todo = <<>>
    /\ existing = {}
    /\ calls = <<>>
    /\ branch = <<>>
    /\ err = ""
    /\ tmp = {}
    /\ nwrites = 0
    /\ pyproject = DeclaredVersion

NextTap ==
    \/ cmd_build_begin
    \/ cmd_build_asset
    \/ cmd_build_write
    \/ cmd_github_begin
    \/ cmd_github_view
    \/ cmd_github_create
    \/ cmd_github_list
    \/ cmd_github_upload
    \/ cmd_github_end
    \/ cmd_tap_begin
    \/ cmd_tap_repo
    \/ cmd_tap_scaffold
    \/ cmd_tap_clone
    \/ cmd_tap_push
    \/ cmd_tap_fallback
    \/ cmd_tap_pr
    \/ Exit

SpecTap == InitTap /\ [][NextTap]_vars

----------------------------------------------------------------------------
\* Properties of the publisher, the packager and the planner.

\* Positions in calls of the uploads the running invocation issued.
uploads == {i \in 1..Len(calls) : calls[i].op = "release upload"}

\* C1: the publisher never issues an upload for a filename that is in the
\* release's asset-name set at the moment of the upload, whatever earlier
\* invocations left on the remote, and within one invocation no filename is
\* uploaded twice, also when two manifest assets share the filename.
C1_NeverReuploads ==
    cmd = "github" =>
        /\ \A i \in uploads : ~calls[i].present
        /\ \A i, j \in uploads : i # j => calls[i].name # calls[j].name

\* A retry that went through: the release was already there, the manifest
\* has two archives of different names and one upload was issued.
C1_RetrySkipsPresent ==
    /\ cmd = "github"
    /\ pc = "done"
    /\ Len(manifest.assets) = 2
    /\ manifest.assets[1].filename # manifest.assets[2].filename
    /\ calls[1].op = "release view"
    /\ calls[1].present
    /\ Cardinality(uploads) = 1

\* C2: with an asset of empty sha256 in the manifest, a github invocation
\* fails before it issues any call to the remote; the failure is
\* AssetNotPackaged unless the tag was already refused.
C2_UnpackagedRefused ==
    (/\ cmd = "github"
     /\ \E i \in 1..Len(manifest.assets) : manifest.assets[i].sha256 = <<>>) =>
        /\ pc = "failed"
        /\ calls = <<>>
        /\ err \in {"InvalidTagFormat", "TagMismatch", "AssetNotPackaged"}

\* The first asset is packaged, the second is not (build --target).
C2_PartlyPackagedRefused ==
    /\ cmd = "github"
    /\ err = "AssetNotPackaged"
    /\ Len(manifest.assets) = 2
    /\ manifest.assets[1].sha256 # <<>>
    /\ manifest.assets[2].sha256 = <<>>

\* C3: a build invocation changes the persisted manifest in one step only,
\* the write after the loop has processed every asset, and that step ends the
\* invocation with success; so a failed build leaves the manifest as it was
\* and has written nothing, and no build writes twice.
C3_BuildWritesOnceAtEnd ==
    [][cmd' = "build" =>
          /\ nwrites' <= 1
          /\ (pc' = "failed" => nwrites' = 0 /\ manifest' = manifest)
          /\ (manifest' # manifest =>
                 /\ pc = "build_loop"
                 /\ todo = <<>>
                 /\ pc' = "done"
                 /\ nwrites = 0
                 /\ nwrites' = 1)]_vars

\* A build that failed on a missing binary while the archive of an asset
\* that the manifest holds unpackaged is on disk.
C3_FailedAfterArchive ==
    /\ cmd = "build"
    /\ pc = "failed"
    /\ err = "BinaryNotFound"
    /\ \E i \in 1..Len(manifest.assets) :
          /\ manifest.assets[i].sha256 = <<>>
          /\ manifest.assets[i].filename \in DOMAIN dist

\* C4: build, github and tap go past their first step only with the tag of
\* the manifest, and the step that ends in TagMismatch leaves the manifest,
\* the archives and the remote alone and has issued no external call.
C4_TagCrossCheck ==
    [][/\ (cmd' \in {"build", "github", "tap"} /\ args'.tag # <<>>) =>
              args'.tag = manifest.tag
       /\ err' = "TagMismatch" =>
              /\ pc' = "failed"
              /\ manifest' = manifest
              /\ dist' = dist
              /\ remote' = remote
              /\ calls' = <<>>
              /\ tmp' = {}
              /\ nwrites' = 0]_vars

C4_TapTagMismatch ==
    /\ cmd = "tap"
    /\ pc = "failed"
    /\ err = "TagMismatch"
    /\ manifest.exists

\* C5: after a successful plan with tag T and target list L the persisted
\* manifest has tag T and one asset per entry of L, in order, repetitions
\* kept, each with empty sha256 and url.
C5_PlanReplaces ==
    (cmd = "plan" /\ pc = "done") =>
        /\ manifest.exists
        /\ manifest.tag = args.tag
        /\ Len(manifest.assets) = Len(args.targets)
        /\ \A i \in 1..Len(args.targets) :
              /\ manifest.assets[i].target = strip(args.targets[i])
              /\ manifest.assets[i].sha256 = <<>>
              /\ manifest.assets[i].url = <<>>

\* A plan with a repeated target after a release of the tag was published
\* (so after a plan and a build that packaged every asset).
C5_ReplanAfterPublish ==
    /\ cmd = "plan"
    /\ pc = "done"
    /\ args.targets = <<LinuxAmd64, LinuxAmd64>>
    /\ V1 \in DOMAIN remote
    /\ remote[V1] # {}

\* Positions in calls of the calls named op.
issued(op) == {i \in 1..Len(calls) : calls[i].op = op}

\* C6: a tap invocation with --dry-run pushes nothing, creates no tap
\* repository and opens no pull request.
C6_DryRunNoSideEffects ==
    (cmd = "tap" /\ args.tag # <<>> /\ args.dry_run) =>
        /\ issued("git push") = {}
        /\ issued("repo create") = {}
        /\ issued("pr create") = {}

\* C7: the release-existence query is the first call of a github invocation;
\* a release is created iff the release was absent at the query, once, as the
\* second call and so before any upload.
C7_CreateIffAbsent ==
    cmd = "github" =>
        /\ calls # <<>> => calls[1].op = "release view"
        /\ \A i \in issued("release create") : i = 2 /\ ~calls[1].present
        /\ (Len(calls) >= 2 /\ ~calls[1].present) =>
               calls[2].op = "release create"
        /\ (Len(calls) >= 2 /\ calls[1].present) =>
               calls[2].op = "release assets"

C9_MissingArchiveBeforeRemote ==
    (cmd = "github" /\ err = "AssetFileNotFound") =>
        /\ \A i \in issued("release create") : ~calls[i].ok
        /\ \A i \in issued("release upload") : ~calls[i].ok

\* C10: a github invocation issues no call after a call of it has failed.
C10_FailedCallIsLast ==
    cmd = "github" => \A i \in 1..Len(calls) : ~calls[i].ok => i = Len(calls)

\* C11: a github invocation that completes leaves the release of the tag on
\* the remote with the archive of every manifest asset among its assets,
\* whatever earlier invocations, failed or not, left there.
C11_CompletedPublishesAll ==
    (cmd = "github" /\ pc = "done") =>
        /\ args.tag \in DOMAIN remote
        /\ \A i \in 1..Len(manifest.assets) :
              manifest.assets[i].filename \in remote[args.tag]

\* A completed retry: the release was there from an earlier invocation that
\* had not uploaded everything, this one uploaded the rest.
C11_RetryCompleted ==
    /\ cmd = "github"
    /\ pc = "done"
    /\ calls[1].present
    /\ uploads # {}
    /\ Cardinality(remote[args.tag]) = 2

\* C12: a plan invocation that fails (tag not of the pattern, working tree
\* dirty or not a repository, target not of two hyphen-separated parts) has
\* written no manifest: the manifest file is as it was.
C12_FailedPlanWritesNothing ==
    [][(cmd' = "plan" /\ pc' = "failed") =>
          /\ manifest' = manifest
          /\ nwrites' = 0
          /\ err' \in {"InvalidTagFormat", "NotAGitRepository",
                       "DirtyWorkingTree", "InvalidTargetFormat"}]_vars

\* A plan refused for a malformed target over a manifest with a packaged asset.
C12_BadTargetOverPackaged ==
    /\ cmd = "plan"
    /\ pc = "failed"
    /\ err = "InvalidTargetFormat"
    /\ manifest.exists
    /\ \E i \in 1..Len(manifest.assets) : manifest.assets[i].sha256 # <<>>

----------------------------------------------------------------------------
\* Credential resolution on its own: cmd_tap's call of resolve_github_token
\* in every environment.  args holds the environment and the operator's
\* answers, mem what the resolution gave.

GhAnswers == {"token", "empty", "error"}

token_resolution ==
    /\ pc = "idle"
    /\ UNCHANGED pyproject
    /\ cmd' = "token"
    /\ \E gh \in GhAnswers, env_github \in BOOLEAN, env_tap \in BOOLEAN,
          ci_mode \in BOOLEAN, choice \in {"1", "2", "3"},
          gh_again \in GhAnswers, typed \in {"token", "empty"} :
          LET t == resolve_github_token(gh, env_github, env_tap, ~ci_mode,
                                        choice, gh_again, typed)
          IN  /\ args' = [tag |-> <<>>, gh |-> gh, env_github |-> env_github,
                          env_tap |-> env_tap, interactive |-> ~ci_mode,
                          choice |-> choice, gh_again |-> gh_again,
                          typed |-> typed]
              /\ mem' = t
              /\ pc' = IF t.ok THEN "done" ELSE "failed"
              /\ err' = t.err
    /\ UNCHANGED <<manifest, dist, remote, todo, existing, calls, branch, tmp,
                   nwrites>>

NextAuth ==
    \/ token_resolution
    \/ Exit

SpecAuth == Init /\ [][NextAuth]_vars

\* C13: the token of "gh auth token" is used when there is one, else
\* GITHUB_TOKEN when set, else TAP_PAT when set, none of these with a prompt;
\* the prompt is reached exactly in an attended run with all three absent,
\* and an unattended run with all three absent fails.
C13_TokenPrecedence ==
    cmd = "token" =>
        LET none == args.gh # "token" /\ ~args.env_github /\ ~args.env_tap
        IN  /\ args.gh = "token" => mem.ok /\ mem.source = "gh"
            /\ (args.gh # "token" /\ args.env_github) =>
                   mem.ok /\ mem.source = "GITHUB_TOKEN"
            /\ (args.gh # "token" /\ ~args.env_github /\ args.env_tap) =>
                   mem.ok /\ mem.source = "TAP_PAT"
            /\ mem.prompted <=> (args.interactive /\ none)
            /\ (~args.interactive /\ none) => (~mem.ok /\ pc = "failed")

\* gh gives nothing, GITHUB_TOKEN is unset, TAP_PAT is set: TAP_PAT is used.
C13_FallsThroughToTapPat ==
    /\ cmd = "token"
    /\ args.gh = "error"
    /\ ~args.env_github
    /\ args.env_tap
    /\ mem.source = "TAP_PAT"

----------------------------------------------------------------------------
\* Properties of the distributor.

\* The tap invocation found no tap repository: "gh repo view" came back
\* non-zero.
tap_repo_missing ==
    /\ cmd = "tap"
    /\ args.tag # <<>>
    /\ calls # <<>>
    /\ calls[1].op = "repo view"
    /\ ~calls[1].ok

\* C14: with the tap repository missing and creation permitted (--create-tap
\* or --auto), tap issues the creation without asking, attended or not, never
\* ends in TapRepoMissing, and clones only after the scaffold was pushed to
\* main.
C14_CreatesWithoutAsking ==
    (tap_repo_missing /\ args.create_tap) =>
        /\ err # "TapRepoMissing"
        /\ Len(calls) >= 2
        /\ calls[2].op = "repo create"
        /\ \A i \in issued("git clone") :
              /\ i = 4
              /\ calls[3].op = "git push"
              /\ calls[3].name = MainBranch
              /\ calls[3].ok

\* C15: with the tap repository missing, creation not permitted and the run
\* unattended, tap fails with TapRepoMissing and has issued nothing but the
\* query.
C15_UnattendedMissingFails ==
    (tap_repo_missing /\ ~args.create_tap /\ args.ci_mode) =>
        /\ pc = "failed"
        /\ err = "TapRepoMissing"
        /\ Len(calls) = 1
        /\ tmp = {}

C15_UnattendedRefusal ==
    /\ tap_repo_missing
    /\ ~args.create_tap
    /\ args.ci_mode
    /\ err = "TapRepoMissing"

\* C16: no tap invocation pushes the formula commit (a push after the
\* clone) to the branch the clone found as the tap's default branch.
C16_NeverPushesDefaultBranch ==
    cmd = "tap" =>
        \A j \in issued("git clone"), i \in issued("git push") :
            (i > j /\ calls[i].ok) => calls[i].name # calls[j].name

\* C17: when a github or tap invocation has ended, in success or in failure,
\* no temporary file or directory it created is left.
C17_TemporariesReleased ==
    (cmd \in {"github", "tap"} /\ pc \in {"done", "failed"}) => tmp = {}

----------------------------------------------------------------------------
\* bump

\* re.match(r"^\d+\.\d+\.\d+$", version)
re_match_version(s) == re_match_tag(<<"v">> \o s)

validate_version(version) == [ok |-> re_match_version(version), version |-> version]

same_version_never(new_version, current_version) == FALSE

\* "if new_version == current_version: sys.exit"
same_version(new_version, current_version) == new_version = current_version

push_allowed_always(a) == TRUE

\* "if not args.commit: sys.exit('Error: --push requires --commit')"
push_allowed(a) == a.commit

\* cmd_bump up to update_version_in_pyproject.  versionArg: --version, <<>>
\* when absent; typed: the answer to the prompt, already stripped.
cmd_bump_begin ==
    /\ pc = "idle"
    /\ cmd' = "bump"
    /\ \E versionArg \in VersionInputs \cup {<<>>}, typed \in {<<>>, NextVersion},
          commit \in BOOLEAN, push \in BOOLEAN :
          LET current_version == pyproject
              given == IF versionArg # <<>> THEN versionArg ELSE typed
              v == validate_version(given)
              stop(e) == /\ Failed(e)
                         /\ UNCHANGED pyproject
          IN  /\ args' = [tag |-> <<>>, version |-> given,
                          current |-> current_version,
                          commit |-> commit, push |-> push]
              /\ IF given = <<>> THEN stop("VersionRequired")
                 ELSE IF ~v.ok THEN stop("InvalidVersion")
                 ELSE IF same_version(v.version, current_version)
                 THEN stop("VersionUnchanged")
                 ELSE /\ pyproject' = v.version
                      /\ pc' = "bump_commit"
                      /\ UNCHANGED <<err, mem, todo, existing, branch>>
    /\ UNCHANGED <<manifest, dist, remote, calls, tmp, nwrites>>

\* "if args.commit or args.push": git add pyproject.toml, git commit.
cmd_bump_commit ==
    /\ pc = "bump_commit"
    /\ IF args.commit \/ args.push
       THEN \E outcome \in {"ok", "add", "commit"} :
               LET add == Call("git add", outcome # "add")
                   commit == Call("git commit", outcome = "ok")
               IN  IF outcome = "add"
                   THEN /\ calls' = Append(calls, add)
                        /\ Failed("StageFailed")
                   ELSE IF outcome = "commit"
                   THEN /\ calls' = calls \o <<add, commit>>
                        /\ Failed("CommitFailed")
                   ELSE /\ calls' = calls \o <<add, commit>>
                        /\ pc' = "bump_push"
                        /\ UNCHANGED <<err, mem, todo, existing, branch>>
       ELSE /\ pc' = "bump_push"
            /\ UNCHANGED <<calls, err, mem, todo, existing, branch>>
    /\ UNCHANGED <<manifest, dist, remote, cmd, args, tmp, nwrites, pyproject>>

\* "if args.push": the --commit check, then git push origin HEAD.
cmd_bump_push ==
    /\ pc = "bump_push"
    /\ IF ~args.push
       THEN /\ Done
            /\ UNCHANGED calls
       ELSE IF ~push_allowed(args)
       THEN /\ Failed("PushRequiresCommit")
            /\ UNCHANGED calls
       ELSE \E answer \in {"ok", "error"} :
               /\ calls' = Append(calls, Call("git push", answer = "ok"))
               /\ IF answer = "ok" THEN Done ELSE Failed("PushFailed")
    /\ UNCHANGED <<manifest, dist, remote, cmd, args, tmp, nwrites, pyproject>>

NextBump ==
    \/ cmd_bump_begin
    \/ cmd_bump_commit
    \/ cmd_bump_push
    \/ Exit

SpecBump == Init /\ [][NextBump]_vars

\* C18: a bump to the version pyproject.toml already declares is rejected
\* with VersionUnchanged; the file is as it was and nothing was staged,
\* committed or pushed.
C18_NoOpBumpRejected ==
    (cmd = "bump" /\ args.version = args.current) =>
        /\ pc = "failed"
        /\ err = "VersionUnchanged"
        /\ pyproject = args.current
        /\ calls = <<>>

\* A no-op bump asked to commit and push, after an earlier bump.
C18_RejectedAfterBump ==
    /\ cmd = "bump"
    /\ args.version = NextVersion
    /\ args.current = NextVersion
    /\ args.commit
    /\ args.push
    /\ err = "VersionUnchanged"

\* C19: a bump with --push and without --commit never pushes and never
\* succeeds: it fails with PushRequiresCommit, unless it has failed before
\* on the version or on staging and committing.
C19_PushNeedsCommit ==
    (cmd = "bump" /\ args.push /\ ~args.commit) =>
        /\ issued("git push") = {}
        /\ pc # "done"
        /\ (pc = "failed"
              /\ err \notin {"VersionRequired", "InvalidVersion",
                             "VersionUnchanged", "StageFailed",
                             "CommitFailed"}) =>
               err = "PushRequiresCommit"

C19_PushWithoutCommitFails ==
    /\ cmd = "bump"
    /\ args.push
    /\ ~args.commit
    /\ err = "PushRequiresCommit"
    /\ pyproject = args.version

----------------------------------------------------------------------------
\* validate_tag on its own, on every string over TagAlphabet of at most
\* MaxTagLen symbols.  args holds the string, mem what validate_tag gave.

TagAlphabet == {"v", "1", ".", "\n"}

TagStrings == UNION {[1..k -> TagAlphabet] : k \in 0..MaxTagLen}

tag_validation ==
    /\ pc = "idle"
    /\ cmd' = "validate_tag"
    /\ \E tag \in TagStrings :
          LET v == validate_tag(tag)
          IN  /\ args' = [tag |-> tag]
              /\ mem' = v
              /\ pc' = IF v.ok THEN "done" ELSE "failed"
              /\ err' = IF v.ok THEN "" ELSE "InvalidTagFormat"
    /\ UNCHANGED <<manifest, dist, remote, todo, existing, calls, branch, tmp,
                   nwrites, pyproject>>

\* The process ends; what validate_tag gave is gone with it.
tag_validation_exit ==
    /\ pc \in {"done", "failed"}
    /\ cmd = "validate_tag"
    /\ cmd' = "none"
    /\ pc' = "idle"
    /\ args' = NoArgs
    /\ mem' = NoManifest
    /\ err' = ""
    /\ UNCHANGED <<manifest, dist, remote, todo, existing, calls, branch, tmp,
                   nwrites, pyproject>>

NextTag ==
    \/ tag_validation
    \/ tag_validation_exit

SpecTag == Init /\ [][NextTag]_vars

\* C20: validate_tag accepts a string exactly when it is v<digits>.<digits>.
\* <digits> and nothing else, and for an accepted tag gives the tag and the
\* tag without its leading v.
C20_AcceptsExactlyVersionTags ==
    cmd = "validate_tag" =>
        /\ mem.ok <=> FullMatchTag(args.tag)
        /\ mem.ok => (mem.tag = args.tag /\ mem.version = Tail(args.tag))

----------------------------------------------------------------------------
\* target_to_filename on its own, on every target of at most MaxTargetLen
\* symbols over TargetAlphabet.  args holds the arguments, mem the result.

TargetAlphabet == {"macos", "linux", "arm64", "-"}

TargetStrings == UNION {[1..k -> TargetAlphabet] : k \in 0..MaxTargetLen}

NameInputs == {ToolName, <<"my", "-", "tool">>}

filename_conversion ==
    /\ pc = "idle"
    /\ cmd' = "target_to_filename"
    /\ \E target \in TargetStrings, name \in NameInputs :
          LET f == target_to_filename(target, name)
          IN  /\ args' = [tag |-> <<>>, target |-> target, name |-> name]
              /\ mem' = f
              /\ pc' = IF f.ok THEN "done" ELSE "failed"
              /\ err' = IF f.ok THEN "" ELSE "InvalidTargetFormat"
    /\ UNCHANGED <<manifest, dist, remote, todo, existing, calls, branch, tmp,
                   nwrites, pyproject>>

\* The process ends; the result is gone with it.
filename_conversion_exit ==
    /\ pc \in {"done", "failed"}
    /\ cmd = "target_to_filename"
    /\ cmd' = "none"
    /\ pc' = "idle"
    /\ args' = NoArgs
    /\ mem' = NoManifest
    /\ err' = ""
    /\ UNCHANGED <<manifest, dist, remote, todo, existing, calls, branch, tmp,
                   nwrites, pyproject>>

NextTarget ==
    \/ filename_conversion
    \/ filename_conversion_exit

SpecTarget == Init /\ [][NextTarget]_vars

\* C21: target_to_filename fails exactly on the targets that do not hold one
\* hyphen, and gives <name>-<os'>-<arch>.tar.gz for <os>-<arch>, os' being
\* darwin for macos and os otherwise.
C21_FilenameOfTarget ==
    cmd = "target_to_filename" =>
        LET t == args.target
            hyphens == {i \in 1..Len(t) : t[i] = "-"}
        IN  /\ mem.ok <=> Cardinality(hyphens) = 1
            /\ ~mem.ok => (pc = "failed" /\ err = "InvalidTargetFormat")
            /\ mem.ok =>
                   LET k == CHOOSE i \in hyphens : TRUE
                       os == SubSeq(t, 1, k - 1)
                       arch == SubSeq(t, k + 1, Len(t))
                   IN  mem.filename =
                           args.name \o <<"-">>
                               \o (IF os = <<"macos">> THEN <<"darwin">> ELSE os)
                               \o <<"-">> \o arch \o <<".tar.gz">>

\* "macos-arm64" and "foo" give "foo-darwin-arm64.tar.gz".
C21_MacosBecomesDarwin ==
    /\ cmd = "target_to_filename"
    /\ args.target = <<"macos", "-", "arm64">>
    /\ args.name = ToolName
    /\ mem.ok
    /\ mem.filename = <<"foo", "-", "darwin", "-", "arm64", ".tar.gz">>

----------------------------------------------------------------------------
\* Properties of the manifest across plan, build, github and tap.

\* The build invocation processes asset a (every asset, or with --target
\* the assets of that target).
processed(a) == args.target = <<>> \/ a.target = args.target

\* C22: after a successful build with tag T and repository R every asset the
\* build processed has a sha256 and the url
\* https://github.com/R/releases/download/T/<filename>.
C22_BuiltAssetsPackaged ==
    (cmd = "build" /\ pc = "done") =>
        \A i \in 1..Len(manifest.assets) :
            LET a == manifest.assets[i]
            IN  processed(a) =>
                    /\ a.sha256 # <<>>
                    /\ a.url = <<"https://github.com/">> \o args.repo
                                   \o <<"/releases/download/">> \o args.tag
                                   \o <<"/">> \o a.filename

\* A successful build --target linux-amd64 on a manifest of two assets.
C22_TargetedBuildDone ==
    /\ cmd = "build"
    /\ pc = "done"
    /\ args.target = LinuxAmd64
    /\ Len(manifest.assets) = 2
    /\ manifest.assets[1].sha256 # <<>>
    /\ manifest.assets[2].target = MacosArm64

\* C23, for the archives the publisher uploads: the archive of an upload
\* that went through has the SHA-256 the manifest records for the asset.
C23_UploadsMatchManifest ==
    [][(/\ cmd = "github"
        /\ pc = "gh_upload"
        /\ Len(calls') > Len(calls)
        /\ calls'[Len(calls')].ok) =>
           LET a == mem.assets[Head(todo)]
           IN  sha256(dist[a.filename]) = a.sha256]_vars

\* C24: with an asset that is not packaged (empty sha256 or url) in the
\* manifest, a tap invocation does not succeed and pushes no formula commit
\* (no push after the clone).
C24_TapFailsClosed ==
    (/\ cmd = "tap"
     /\ \E i \in 1..Len(manifest.assets) :
           manifest.assets[i].sha256 = <<>> \/ manifest.assets[i].url = <<>>) =>
        /\ pc # "done"
        /\ \A j \in issued("git clone"), i \in issued("git push") : i < j

\* C25: a bump without --commit stages nothing and creates no commit.
C25_CommitOnlyOnRequest ==
    (cmd = "bump" /\ ~args.commit) =>
        /\ issued("git add") = {}
        /\ issued("git commit") = {}

\* C26: the step that ends a build with success changes only the sha256 and
\* url of the assets the build processed: tag, version, name, the number and
\* order of the assets, every target and filename, and every asset it did
\* not process are as before.
C26_BuildFrame ==
    [][(cmd = "build" /\ pc = "build_loop" /\ pc' = "done") =>
          /\ manifest'.exists = manifest.exists
          /\ manifest'.tag = manifest.tag
          /\ manifest'.version = manifest.version
          /\ manifest'.name = manifest.name
          /\ Len(manifest'.assets) = Len(manifest.assets)
          /\ \A i \in 1..Len(manifest.assets) :
                /\ manifest'.assets[i].target = manifest.assets[i].target
                /\ manifest'.assets[i].filename = manifest.assets[i].filename
                /\ ~processed(manifest.assets[i]) =>
                       manifest'.assets[i] = manifest.assets[i]]_vars

\* A successful build --target macos-arm64 that left the first asset, of
\* another target, unpackaged.
C26_OtherAssetUntouched ==
    /\ cmd = "build"
    /\ pc = "done"
    /\ args.target = MacosArm64
    /\ Len(manifest.assets) = 2
    /\ manifest.assets[1].target = LinuxAmd64
    /\ manifest.assets[1].sha256 = <<>>
    /\ manifest.assets[2].sha256 # <<>>

\* C27: no step of a github or tap invocation, successful or failed, changes
\* the manifest file or calls write_manifest.
C27_ManifestReadOnly ==
    [][cmd' \in {"github", "tap"} =>
          /\ manifest' = manifest
          /\ nwrites' = 0]_vars

\* A github invocation that created the release and then failed, and a
\* manifest that is still there.
C27_FailedPublishKeepsManifest ==
    /\ cmd = "github"
    /\ pc = "failed"
    /\ err = "ExternalToolError"
    /\ \E i \in issued("release create") : calls[i].ok
    /\ manifest.exists
    /\ manifest.tag = args.tag

\* C28: of the pushes of the formula branch (the pushes after the clone) the
\* first uses a remote URL without the token; a push with the token in the
\* URL comes only right after that push has failed, so none comes when it
\* succeeded.
C28_AmbientPushFirst ==
    cmd = "tap" =>
        \A j \in issued("git clone"), i \in issued("git push") :
            i > j =>
                /\ i = j + 1 => ~calls[i].cred
                /\ calls[i].cred =>
                       /\ i = j + 2
                       /\ calls[j + 1].op = "git push"
                       /\ ~calls[j + 1].cred
                       /\ ~calls[j + 1].ok
                /\ i > j + 2 => FALSE

\* The ambient push failed and the push with the token went through.
C28_FallbackAfterFailure ==
    /\ cmd = "tap"
    /\ \E i \in issued("git push") :
          /\ i > 1
          /\ calls[i].cred
          /\ calls[i].ok
          /\ calls[i - 1].op = "git push"
          /\ ~calls[i - 1].cred
          /\ ~calls[i - 1].ok

\* C29: in every manifest on disk the version is the tag without its leading
\* v, and an asset has a sha256 exactly when it has a url.
C29_PersistedManifestPaired ==
    manifest.exists =>
        /\ manifest.tag # <<>>
        /\ manifest.tag[1] = "v"
        /\ manifest.version = Tail(manifest.tag)
        /\ \A i \in 1..Len(manifest.assets) :
               (manifest.assets[i].sha256 # <<>>) <=> (manifest.assets[i].url # <<>>)

\* A manifest written by build --target: one asset packaged, the other one
\* as plan left it.
C29_PartlyPackagedManifest ==
    /\ manifest.exists
    /\ nwrites > 0
    /\ cmd = "build"
    /\ \E i, j \in 1..Len(manifest.assets) :
          /\ manifest.assets[i].sha256 # <<>>
          /\ manifest.assets[i].url # <<>>
          /\ manifest.assets[j].sha256 = <<>>
          /\ manifest.assets[j].url = <<>>

============================================================================
